---- MODULE Spec2Model ----
(***************************************************************************)
(* Model of src/net/interface_plan9.go: the Plan 9 implementation of the   *)
(* interface table, the interface address table and the multicast stub.    *)
(*                                                                         *)
(* Text is modelled as a sequence of one-character strings, a file as the  *)
(* sequence of its lines.  The pseudo-filesystem (the ipifc directory, the *)
(* per-interface status files, the per-device addr files) is the state the *)
(* queries read; it is chosen in Init and not changed by any query.        *)
(***************************************************************************)
EXTENDS Integers, Sequences, FiniteSets, TLC

VARIABLES dir, status, addrf, res, nopen

vars == <<dir, status, addrf, res, nopen>>

\* Bounds of the model.
MaxIfc == 3
MaxListing == 4
MaxAddrLen == 13
MaxOpen == 3

\* len(address) != 12 in readInterface.
HwAddrLen == 12
\* len(statusData) < 4 in readInterface.
MinStatusFields == 4

-----------------------------------------------------------------------------
\* Text helpers.

DecDigits == <<"0", "1", "2", "3", "4", "5", "6", "7", "8", "9">>

LowerHex == <<"0", "1", "2", "3", "4", "5", "6", "7", "8", "9", "a", "b", "c", "d", "e", "f">>

UpperHex == <<"0", "1", "2", "3", "4", "5", "6", "7", "8", "9", "A", "B", "C", "D", "E", "F">>

IndexIn(c, table) == CHOOSE i \in 1..Len(table) : table[i] = c

IsIn(c, table) == \E i \in 1..Len(table) : table[i] = c

IsDigit(c) == IsIn(c, DecDigits)

DigitVal(c) == IndexIn(c, DecDigits) - 1

IsHex(c) == IsIn(c, LowerHex) \/ IsIn(c, UpperHex)

HexVal(c) == IF IsIn(c, LowerHex) THEN IndexIn(c, LowerHex) - 1 ELSE IndexIn(c, UpperHex) - 1

\* strconv.Itoa
RECURSIVE Itoa(_)
Itoa(n) ==
    IF n < 0 THEN <<"-">> \o Itoa(0 - n)
    ELSE IF n < 10 THEN <<DecDigits[n + 1]>>
    ELSE Itoa(n \div 10) \o <<DecDigits[(n % 10) + 1]>>

\* strings.Split(s, sep) for a one-character separator: the fields between
\* the separators, empty fields included; one empty field for the empty text.
RECURSIVE Split(_, _)
Split(s, sep) ==
    IF \A i \in 1..Len(s) : s[i] # sep THEN <<s>>
    ELSE LET i == CHOOSE k \in 1..Len(s) : s[k] = sep /\ \A j \in 1..(k - 1) : s[j] # sep
         IN  <<SubSeq(s, 1, i - 1)>> \o Split(SubSeq(s, i + 1, Len(s)), sep)

RECURSIVE DecValue(_)
DecValue(s) == IF s = <<>> THEN 0 ELSE 10 * DecValue(SubSeq(s, 1, Len(s) - 1)) + DigitVal(s[Len(s)])

\* strconv.ParseInt(s, 10, 64): an optional sign, then one or more decimal
\* digits.  (The texts of the model are short, far inside the 64-bit range.)
ParseInt(s) ==
    LET signed == Len(s) > 0 /\ s[1] \in {"+", "-"}
        body   == IF signed THEN SubSeq(s, 2, Len(s)) ELSE s
        ok     == Len(body) > 0 /\ \A i \in 1..Len(body) : IsDigit(body[i])
    IN  IF ~ok THEN [ok |-> FALSE, val |-> 0]
        ELSE [ok |-> TRUE, val |-> IF signed /\ s[1] = "-" THEN 0 - DecValue(body) ELSE DecValue(body)]

\* ParseMAC for the colon or hyphen separated forms of 6, 8 or 20 octets:
\* every octet is two hexadecimal digits followed by the separator of the
\* first octet (or by the end of the text).
ParseMAC(s) ==
    IF Len(s) < 14 \/ ~(s[3] \in {":", "-"}) \/ (Len(s) + 1) % 3 # 0
        \/ ~(((Len(s) + 1) \div 3) \in {6, 8, 20})
    THEN [ok |-> FALSE, hw |-> <<>>]
    ELSE LET n == (Len(s) + 1) \div 3
             octetOk(k) == /\ IsHex(s[3 * k - 2])
                           /\ IsHex(s[3 * k - 1])
                           /\ (k < n => s[3 * k] = s[3])
         IN  IF \A k \in 1..n : octetOk(k)
             THEN [ok |-> TRUE,
                   hw |-> [k \in 1..n |-> 16 * HexVal(s[3 * k - 2]) + HexVal(s[3 * k - 1])]]
             ELSE [ok |-> FALSE, hw |-> <<>>]

\* dtoi of the net package: the decimal number starting at index i, the
\* index after it, and whether at least one digit was read.
DigitsEnd(s, i) == CHOOSE j \in i..(Len(s) + 1) :
                      /\ \A k \in i..(j - 1) : IsDigit(s[k])
                      /\ (j <= Len(s) => ~IsDigit(s[j]))

dtoi(s, i) ==
    LET j == DigitsEnd(s, i)
    IN  [n |-> DecValue(SubSeq(s, i, j - 1)), i |-> j, ok |-> j > i]

\* ParseIP for texts without a colon (dotted-decimal IPv4): four decimal
\* numbers of at most 255 separated by single dots, and nothing else.  The
\* absent IP (nil) is the empty sequence.
NilIP == <<>>

RECURSIVE parseIPv4(_, _, _, _)
parseIPv4(s, j, i, acc) ==
    IF j = 4 THEN (IF i = Len(s) + 1 THEN acc ELSE NilIP)
    ELSE IF i > Len(s) THEN NilIP
    ELSE IF j > 0 /\ s[i] # "." THEN NilIP
    ELSE LET d == dtoi(s, IF j > 0 THEN i + 1 ELSE i)
         IN  IF ~d.ok \/ d.n > 255 THEN NilIP
             ELSE parseIPv4(s, j + 1, d.i, Append(acc, d.n))

ParseIP(s) == parseIPv4(s, 0, 1, <<>>)

-----------------------------------------------------------------------------
\* The pseudo-filesystem.

NoFile == [exists |-> FALSE, readErr |-> FALSE, lines |-> <<>>]

TextFile(ls) == [exists |-> TRUE, readErr |-> FALSE, lines |-> ls]

BadFile == [exists |-> TRUE, readErr |-> TRUE, lines |-> <<>>]

\* filepath.Join(netdir, "ipifc", name, "status") and filepath.Join(device, "addr")
DirPath == [kind |-> "ipifc", key |-> <<>>]

StatusPath(name) == [kind |-> "status", key |-> name]

AddrPath(device) == [kind |-> "addr", key |-> device]

NoPath == [kind |-> "none", key |-> <<>>]

StatusFile(name) == IF name \in DOMAIN status THEN status[name] ELSE NoFile

AddrFile(device) == IF device \in DOMAIN addrf THEN addrf[device] ELSE NoFile

\* bufio.Scanner: the text after the k-th Scan is the k-th line, or the empty
\* text when the file has fewer lines or cannot be read.
ScanText(f, k) == IF ~f.readErr /\ k <= Len(f.lines) THEN f.lines[k] ELSE <<>>

-----------------------------------------------------------------------------
\* Errors and results of the queries.

NoErr == [msg |-> "", path |-> NoPath]

ErrOpen(path) == [msg |-> "open", path |-> path]

ErrRead(path) == [msg |-> "read", path |-> path]

ErrStatus(path) == [msg |-> "Invalid status file of interface: ", path |-> path]

ErrHwAddr == [msg |-> "Interface has invalid hardware address", path |-> NoPath]

ErrMAC == [msg |-> "invalid MAC address", path |-> NoPath]

ErrCannotParse == [msg |-> "Cannot parse IP address for interface", path |-> NoPath]

ErrUnableParse == [msg |-> "Unable to parse IP address for interface", path |-> NoPath]

ErrBounds == [msg |-> "runtime error: slice bounds out of range", path |-> NoPath]

IsIOError(e) == e.msg \in {"open", "read"}

IsFormatError(e) == e.msg \in {ErrStatus(NoPath).msg, ErrHwAddr.msg, ErrMAC.msg,
                               ErrCannotParse.msg, ErrUnableParse.msg}

\* outcome: "ok" (nil error), "err" (an error value is returned) or "panic"
\* (a run-time panic, nothing is returned).  val/isNil: the returned slice.
\* n: the returned count.  opened: the paths given to os.Open, in order.
\* held: the handles obtained.  closed: the handles closed before returning.
Ok(val, n, opened, held, closed) ==
    [outcome |-> "ok", err |-> NoErr, val |-> val, isNil |-> FALSE, n |-> n,
     opened |-> opened, held |-> held, closed |-> closed]

Fail(e, n, opened, held, closed) ==
    [outcome |-> "err", err |-> e, val |-> <<>>, isNil |-> TRUE, n |-> n,
     opened |-> opened, held |-> held, closed |-> closed]

Panic(e, opened, held, closed) ==
    [outcome |-> "panic", err |-> e, val |-> <<>>, isNil |-> TRUE, n |-> 0,
     opened |-> opened, held |-> held, closed |-> closed]

Flags == {"FlagUp", "FlagBroadcast", "FlagLoopback"}

-----------------------------------------------------------------------------
\* getInterfaceCount

\* The counting loop: rescan the listing for the decimal name of the counter,
\* advance the counter on a hit, stop at the first miss.
RECURSIVE SinglePass(_, _, _)
SinglePass(names, i, count) ==
    IF i > Len(names) THEN count
    ELSE SinglePass(names, i + 1, IF names[i] = Itoa(count) THEN count + 1 ELSE count)

\* Variant of the counting loop: one pass over the listing, in listing order,
\* without rescanning after a hit.
CountFrom_SinglePass(names, count) == SinglePass(names, 1, count)

RECURSIVE CountFrom(_, _)
CountFrom(names, count) ==
    IF \E i \in 1..Len(names) : names[i] = Itoa(count)
    THEN CountFrom(names, count + 1)
    ELSE count

getInterfaceCount ==
    IF ~dir.exists THEN Fail(ErrOpen(DirPath), 0 - 1, <<DirPath>>, 0, 0)
    ELSE IF dir.readErr THEN Fail(ErrRead(DirPath), 0 - 1, <<DirPath>>, 1, 1)
    ELSE Ok(<<>>, CountFrom(dir.lines, 0), <<DirPath>>, 1, 1)

-----------------------------------------------------------------------------
\* readInterface

\* iface.Index = id + 1
IfaceIndex(id) == id + 1

\* iface.Name = strconv.Itoa(id)
IfaceName(id) == Itoa(id)

\* Variant of the colon-separated form: the second group starts one
\* character early.
FormatMAC_Overlap(address) ==
    <<address[1], address[2], ":", address[2], address[3], ":", address[5], address[6], ":",
      address[7], address[8], ":", address[9], address[10], ":", address[11], address[12]>>

\* The colon-separated form of the 12 characters of the addr file.
FormatMAC(address) ==
    <<address[1], address[2], ":", address[3], address[4], ":", address[5], address[6], ":",
      address[7], address[8], ":", address[9], address[10], ":", address[11], address[12]>>

readInterface(id) ==
    LET name == IfaceName(id)
        sp   == StatusPath(name)
        sf   == StatusFile(name)
    IN
    IF ~sf.exists THEN Fail(ErrOpen(sp), 0, <<sp>>, 0, 0)
    ELSE IF sf.readErr THEN Fail(ErrRead(sp), 0, <<sp>>, 1, 1)
    ELSE
    LET statusData == Split(ScanText(sf, 1), " ") IN
    IF Len(statusData) < MinStatusFields THEN Fail(ErrStatus(sp), 0, <<sp>>, 1, 1)
    ELSE
    LET device == statusData[2]
        mtu    == ParseInt(statusData[4])
        ap     == AddrPath(device)
        af     == AddrFile(device)
    IN
    IF ~mtu.ok THEN Fail(ErrStatus(sp), 0, <<sp>>, 1, 1)
    ELSE IF ~af.exists THEN Fail(ErrOpen(ap), 0, <<sp, ap>>, 1, 1)
    ELSE IF af.readErr THEN Fail(ErrRead(ap), 0, <<sp, ap>>, 2, 2)
    ELSE
    LET address == ScanText(af, 1) IN
    IF Len(address) # HwAddrLen THEN Fail(ErrHwAddr, 0, <<sp, ap>>, 2, 2)
    ELSE
    LET mac == ParseMAC(FormatMAC(address)) IN
    IF ~mac.ok THEN Fail(ErrMAC, 0, <<sp, ap>>, 2, 2)
    ELSE Ok(<<[Index |-> IfaceIndex(id), Name |-> name, MTU |-> mtu.val,
               HardwareAddr |-> mac.hw, Flags |-> Flags]>>,
            0, <<sp, ap>>, 2, 2)

-----------------------------------------------------------------------------
\* interfaceTable

\* Variant of the loop: an entry that cannot be read is left out and the
\* loop goes on.
RECURSIVE TableLoop_SkipBad(_, _, _)
TableLoop_SkipBad(idx, numIfc, acc) ==
    IF idx >= numIfc THEN acc
    ELSE LET r == readInterface(idx)
             opened == acc.opened \o r.opened
             held   == acc.held + r.held
             closed == acc.closed + r.closed
         IN  TableLoop_SkipBad(idx + 1, numIfc, Ok(acc.val \o r.val, 0, opened, held, closed))

\* The loop over idx = 0 .. numIfc-1; acc is the result so far.
RECURSIVE TableLoop(_, _, _)
TableLoop(idx, numIfc, acc) ==
    IF idx >= numIfc THEN acc
    ELSE LET r == readInterface(idx)
             opened == acc.opened \o r.opened
             held   == acc.held + r.held
             closed == acc.closed + r.closed
         IN  IF r.outcome # "ok" THEN Fail(r.err, 0, opened, held, closed)
             ELSE TableLoop(idx + 1, numIfc, Ok(acc.val \o r.val, 0, opened, held, closed))

interfaceTable(ifindex) ==
    IF ifindex = 0
    THEN LET c == getInterfaceCount
         IN  IF c.outcome # "ok" THEN Fail(c.err, 0, c.opened, c.held, c.closed)
             ELSE TableLoop(0, c.n, Ok(<<>>, 0, c.opened, c.held, c.closed))
    ELSE readInterface(ifindex)

-----------------------------------------------------------------------------
\* interfaceAddrTable

\* Variant of the token extraction: the first tab-delimited field is taken.
IPToken_FirstField(ipline) == Split(Split(ipline, "\t")[1], " ")[1]

\* strings.Split(strings.Split(ipline, "\t")[1], " ")[0]
IPToken(ipline) == Split(Split(ipline, "\t")[2], " ")[1]

\* One iteration of the loop over the resolved interfaces.  The status file
\* is opened and never closed.
AddrOf(iface) ==
    LET sp == StatusPath(iface.Name)
        sf == StatusFile(iface.Name)
    IN
    IF ~sf.exists THEN Fail(ErrOpen(sp), 0, <<sp>>, 0, 0)
    ELSE IF sf.readErr THEN Fail(ErrRead(sp), 0, <<sp>>, 1, 0)
    ELSE
    LET ipline == ScanText(sf, 2) IN
    IF Len(ipline) < 1 THEN Panic(ErrBounds, <<sp>>, 1, 0)
    ELSE IF ipline[1] # "\t" THEN Fail(ErrCannotParse, 0, <<sp>>, 1, 0)
    ELSE
    LET ip == ParseIP(IPToken(ipline)) IN
    IF ip = NilIP THEN Fail(ErrUnableParse, 0, <<sp>>, 1, 0)
    ELSE Ok(<<[IP |-> ip, Zone |-> ""]>>, 0, <<sp>>, 1, 0)

RECURSIVE AddrLoop(_, _, _)
AddrLoop(ifaces, idx, acc) ==
    IF idx > Len(ifaces) THEN acc
    ELSE LET r == AddrOf(ifaces[idx])
             opened == acc.opened \o r.opened
             held   == acc.held + r.held
             closed == acc.closed + r.closed
         IN  IF r.outcome = "panic" THEN Panic(r.err, opened, held, closed)
             ELSE IF r.outcome # "ok" THEN Fail(r.err, 0, opened, held, closed)
             ELSE AddrLoop(ifaces, idx + 1, Ok(acc.val \o r.val, 0, opened, held, closed))

\* ifi is <<>> for the nil interface, <<iface>> for a given one.
interfaceAddrTable(ifi) ==
    LET t == IF ifi = <<>> THEN interfaceTable(0) ELSE Ok(ifi, 0, <<>>, 0, 0)
    IN  IF t.outcome # "ok" THEN t
        ELSE AddrLoop(t.val, 1, Ok(<<>>, 0, t.opened, t.held, t.closed))

\* The interfaces interfaceAddrTable resolves for ifi (when that succeeds).
ResolvedIfaces(ifi) == IF ifi = <<>> THEN interfaceTable(0).val ELSE ifi

-----------------------------------------------------------------------------
\* interfaceMulticastAddrTable

\* Variant of the stub: the multicast table is answered as the address table.
interfaceMulticastAddrTable_AsAddrTable(ifi) == interfaceAddrTable(ifi)

interfaceMulticastAddrTable(ifi) ==
    [outcome |-> "ok", err |-> NoErr, val |-> <<>>, isNil |-> TRUE, n |-> 0,
     opened |-> <<>>, held |-> 0, closed |-> 0]

-----------------------------------------------------------------------------
\* The file contents the queries are run against.

Join(a, b) == a \o <<" ">> \o b

tDevice == <<"d", "e", "v">>

tMaxtu == <<"m", "t", "u">>

Ether0 == <<"e", "0">>

Ether1 == <<"e", "1">>

Mtu1514 == <<"1", "5", "1", "4">>

\* "dev <device> mtu <mtu>": the first line of a status file.
StatusLine(device, mtu) == Join(Join(Join(tDevice, device), tMaxtu), mtu)

\* "\t10.0.0.5 255.255.255.0\t"
TabLine == <<"\t", "1", "0", ".", "0", ".", "0", ".", "5", " ",
             "2", "5", "5", ".", "2", "5", "5", ".", "2", "5", "5", ".", "0", "\t">>

\* "flags\t10.0.0.5 255.255.255.0\t"
FlagsLine == <<"f", "l", "a", "g", "s">> \o TabLine

\* "\t10.0.0 /24": the IP token has three numbers only.
ShortIPLine == <<"\t", "1", "0", ".", "0", ".", "0", " ", "/", "2", "4">>

\* "\t10.0.0.256 /24"
BigIPLine == <<"\t", "1", "0", ".", "0", ".", "0", ".", "2", "5", "6", " ", "/", "2", "4">>

GoodStatus == TextFile(<<StatusLine(Ether0, Mtu1514), TabLine>>)

OneLineStatus == TextFile(<<StatusLine(Ether0, Mtu1514)>>)

NegMtuStatus == TextFile(<<StatusLine(Ether0, <<"-", "1">>), TabLine>>)

NoDeviceStatus == TextFile(<<StatusLine(Ether1, Mtu1514), TabLine>>)

FlagsStatus == TextFile(<<StatusLine(Ether0, Mtu1514), FlagsLine>>)

SmallStatusPool == {GoodStatus, NoDeviceStatus, OneLineStatus, FlagsStatus}

StatusPool ==
    SmallStatusPool \cup
    { NoFile,
      BadFile,
      NegMtuStatus,
      TextFile(<<>>),
      TextFile(<<Join(Join(tDevice, Ether0), tMaxtu), TabLine>>),
      TextFile(<<StatusLine(Ether0, <<"1", "5", "x">>), TabLine>>),
      TextFile(<<StatusLine(Ether0, <<>>), TabLine>>),
      TextFile(<<StatusLine(Ether0, <<"+", "9">>), TabLine>>),
      TextFile(<<StatusLine(<<>>, Mtu1514), TabLine>>),
      TextFile(<<StatusLine(Ether0, Mtu1514), <<>>, TabLine>>),
      TextFile(<<StatusLine(Ether0, Mtu1514), <<" ">> \o TabLine>>),
      TextFile(<<StatusLine(Ether0, Mtu1514), ShortIPLine>>),
      TextFile(<<StatusLine(Ether0, Mtu1514), BigIPLine>>),
      TextFile(<<StatusLine(Ether0, Mtu1514), <<"\t">>>>) }

\* "0011223344aa", "0123456789ab", "ABCDEF012345"
ExampleAddr == <<"0", "0", "1", "1", "2", "2", "3", "3", "4", "4", "a", "a">>

DistinctAddr == <<"0", "1", "2", "3", "4", "5", "6", "7", "8", "9", "a", "b">>

UpperAddr == <<"A", "B", "C", "D", "E", "F", "0", "1", "2", "3", "4", "5">>

GoodAddr == TextFile(<<ExampleAddr>>)

\* Prefixes of "0123456789abcdef..." of every length up to MaxAddrLen, and
\* 12-character lines with one character that is no hexadecimal digit.
LongAddr == [i \in 1..MaxAddrLen |-> LowerHex[((i - 1) % 16) + 1]]

AddrLines ==
    {ExampleAddr, DistinctAddr, UpperAddr}
    \cup {SubSeq(LongAddr, 1, n) : n \in 0..MaxAddrLen}
    \cup {[DistinctAddr EXCEPT ![i] = c] : i \in 1..HwAddrLen, c \in {"g", ":"}}

AddrPool ==
    {NoFile, BadFile, TextFile(<<>>)}
    \cup {TextFile(<<a>>) : a \in AddrLines}
    \cup {TextFile(<<ExampleAddr, DistinctAddr>>)}

\* The directory names: the decimal names of the positions, a decimal name
\* above them, and names that are no decimal number of a position.
NamePool == {Itoa(i) : i \in 0..(MaxIfc - 1)} \cup {Itoa(MaxIfc + 2), <<"c">>, <<"0", "1">>}

\* The listings of at most MaxListing names, in every order.
Listings ==
    UNION {{l \in [1..n -> NamePool] : \A i, j \in 1..n : i # j => l[i] # l[j]} : n \in 0..MaxListing}

AllPositions == [i \in 1..MaxIfc |-> Itoa(i - 1)]

Range(f) == {f[i] : i \in DOMAIN f}

\* A caller-supplied Interface value for position i.
GivenIfc(i) == [Index |-> i + 1, Name |-> Itoa(i), MTU |-> 1514,
                HardwareAddr |-> <<0, 17, 34, 51, 68, 170>>, Flags |-> Flags]

NoCall == [op |-> "none", argIdx |-> 0, argIfc |-> <<>>] @@ Ok(<<>>, 0, <<>>, 0, 0)

\* The first n entries listed (or a directory that cannot be opened or read),
\* each listed entry with one of the status files of the small pool.
InitTable ==
    /\ dir \in {NoFile, BadFile} \cup {TextFile(SubSeq(AllPositions, 1, n)) : n \in 0..MaxIfc}
    /\ status \in [Range(dir.lines) -> SmallStatusPool]
    /\ addrf = [d \in {Ether0} |-> GoodAddr]

\* One entry, with every status file of the pool.
InitStatus ==
    /\ dir = TextFile(<<Itoa(0)>>)
    /\ status \in [{Itoa(0)} -> StatusPool]
    /\ addrf = [d \in {Ether0} |-> GoodAddr]

\* One entry with a well-formed status file, and every addr file of the pool.
InitAddr ==
    /\ dir = TextFile(<<Itoa(0)>>)
    /\ status = [n \in {Itoa(0)} |-> GoodStatus]
    /\ addrf \in [{Ether0} -> AddrPool]

Init ==
    /\ (InitTable \/ InitStatus \/ InitAddr)
    /\ res = NoCall
    /\ nopen = 0

\* Every listing, each listed entry with a well-formed status file.
InitCount ==
    /\ dir \in {NoFile, BadFile} \cup {TextFile(l) : l \in Listings}
    /\ status = [n \in Range(dir.lines) |-> GoodStatus]
    /\ addrf = [d \in {Ether0} |-> GoodAddr]
    /\ res = NoCall
    /\ nopen = 0

-----------------------------------------------------------------------------
\* The queries as actions: res is the outcome of the last query, nopen the
\* number of file handles open.

Result(op, argIdx, argIfc, out) == [op |-> op, argIdx |-> argIdx, argIfc |-> argIfc] @@ out

Leak(out) == out.held - out.closed

GetInterfaceCount ==
    LET out == getInterfaceCount IN
    /\ nopen + Leak(out) <= MaxOpen
    /\ res' = Result("getInterfaceCount", 0, <<>>, out)
    /\ nopen' = nopen + Leak(out)
    /\ UNCHANGED <<dir, status, addrf>>

ReadInterface ==
    \E id \in 0..MaxIfc :
        LET out == readInterface(id) IN
        /\ nopen + Leak(out) <= MaxOpen
        /\ res' = Result("readInterface", id, <<>>, out)
        /\ nopen' = nopen + Leak(out)
        /\ UNCHANGED <<dir, status, addrf>>

InterfaceTable ==
    \E ifindex \in 0..MaxIfc :
        LET out == interfaceTable(ifindex) IN
        /\ nopen + Leak(out) <= MaxOpen
        /\ res' = Result("interfaceTable", ifindex, <<>>, out)
        /\ nopen' = nopen + Leak(out)
        /\ UNCHANGED <<dir, status, addrf>>

InterfaceAddrTable ==
    \E ifi \in {<<>>} \cup {<<GivenIfc(i)>> : i \in 0..(MaxIfc - 1)} :
        LET out == interfaceAddrTable(ifi) IN
        /\ nopen + Leak(out) <= MaxOpen
        /\ res' = Result("interfaceAddrTable", 0, ifi, out)
        /\ nopen' = nopen + Leak(out)
        /\ UNCHANGED <<dir, status, addrf>>

InterfaceMulticastAddrTable ==
    \E ifi \in {<<>>} \cup {<<GivenIfc(i)>> : i \in 0..MaxIfc} :
        LET out == interfaceMulticastAddrTable(ifi) IN
        /\ nopen + Leak(out) <= MaxOpen
        /\ res' = Result("interfaceMulticastAddrTable", 0, ifi, out)
        /\ nopen' = nopen + Leak(out)
        /\ UNCHANGED <<dir, status, addrf>>

Next ==
    \/ GetInterfaceCount
    \/ ReadInterface
    \/ InterfaceTable
    \/ InterfaceAddrTable
    \/ InterfaceMulticastAddrTable

Spec == Init /\ [][Next]_vars

\* The queries that list the directory, over every listing.
NextCount ==
    \/ GetInterfaceCount
    \/ InterfaceTable

SpecCount == InitCount /\ [][NextCount]_vars

-----------------------------------------------------------------------------
\* Properties.

Min(S) == CHOOSE x \in S : \A y \in S : x <= y

ListedNames == Range(dir.lines)

\* C1: getInterfaceCount returns, for every listing of names in any order,
\* the k with "0".."k-1" all listed and "k" not listed; names above the first
\* gap and non-decimal names do not raise the count, and the scan ends after
\* at most one hit per listed name.
C1_CountIsFirstGap ==
    res.op = "getInterfaceCount" =>
        IF dir.exists /\ ~dir.readErr
        THEN /\ res.outcome = "ok"
             /\ res.n >= 0
             /\ res.n <= Len(dir.lines)
             /\ \A i \in 0..(res.n - 1) : Itoa(i) \in ListedNames
             /\ Itoa(res.n) \notin ListedNames
        ELSE res.outcome = "err" /\ IsIOError(res.err)

\* C1 witness: a count of at least 2 from a listing that is out of order,
\* with a decimal name above the first gap and a non-decimal name.
C1_Witness ==
    /\ res.op = "getInterfaceCount"
    /\ res.outcome = "ok"
    /\ res.n >= 2
    /\ dir.lines[1] # Itoa(0)
    /\ \E i \in 1..Len(dir.lines) : dir.lines[i] = Itoa(res.n + 2) \/ dir.lines[i] = <<"c">>
    /\ \E i, j \in 1..Len(dir.lines) : i < j /\ dir.lines[i] = Itoa(1) /\ dir.lines[j] = Itoa(0)

\* The positions below the count whose read fails.
BadPositions(count) == {i \in 0..(count - 1) : readInterface(i).outcome # "ok"}

\* C2: interfaceTable(0) either returns exactly getInterfaceCount records,
\* the record at position i with Index i+1 and Name decimal(i), or fails with
\* the error of the count or of the first position that cannot be read,
\* opens no status file past that position, and returns no table.
C2_TableAllOrNothing ==
    (res.op = "interfaceTable" /\ res.argIdx = 0) =>
        LET c == getInterfaceCount IN
        IF c.outcome # "ok"
        THEN /\ res.outcome = "err" /\ res.err = c.err
             /\ res.isNil /\ res.val = <<>>
             /\ res.opened = <<DirPath>>
        ELSE IF BadPositions(c.n) = {}
        THEN /\ res.outcome = "ok"
             /\ Len(res.val) = c.n
             /\ \A i \in 1..c.n : res.val[i].Index = i /\ res.val[i].Name = Itoa(i - 1)
        ELSE LET p == Min(BadPositions(c.n)) IN
             /\ res.outcome = "err" /\ res.err = readInterface(p).err
             /\ res.isNil /\ res.val = <<>>
             /\ \A k \in 1..Len(res.opened) :
                   res.opened[k].kind = "status" => res.opened[k].key \in {Itoa(i) : i \in 0..p}

\* C2 witness: interfaceTable(0) fails at a position after the first, after
\* reading the entries before it.
C2_Witness ==
    /\ res.op = "interfaceTable" /\ res.argIdx = 0
    /\ res.outcome = "err"
    /\ readInterface(0).outcome = "ok"
    /\ \E k \in 1..Len(res.opened) : res.opened[k] = StatusPath(Itoa(1))

\* C3: a successful interfaceTable(k), k nonzero, returns one record and its
\* Index is k.
C3_SelectorIsIndex ==
    (res.op = "interfaceTable" /\ res.argIdx # 0 /\ res.outcome = "ok") =>
        Len(res.val) = 1 /\ res.val[1].Index = res.argIdx

\* C4: interfaceAddrTable either succeeds with one address per resolved
\* interface, in order, each with an empty Zone and an IP, or returns an
\* error and no sequence.
C4_OnePerInterface ==
    res.op = "interfaceAddrTable" =>
        \/ /\ res.outcome = "ok"
           /\ Len(res.val) = Len(ResolvedIfaces(res.argIfc))
           /\ \A i \in 1..Len(res.val) :
                 /\ res.val[i].Zone = ""
                 /\ res.val[i].IP # NilIP
                 /\ <<res.val[i]>> = AddrOf(ResolvedIfaces(res.argIfc)[i]).val
        \/ /\ res.outcome = "err"
           /\ res.isNil /\ res.val = <<>>

\* The second line of the status file of the interface given to the last
\* interfaceAddrTable call, when that file can be read.
GivenStatus == StatusFile(res.argIfc[1].Name)

AddrCallOnReadable ==
    /\ res.op = "interfaceAddrTable"
    /\ res.argIfc # <<>>
    /\ GivenStatus.exists /\ ~GivenStatus.readErr

\* C5: whatever the status file holds, an address line that does not begin
\* with a tab makes interfaceAddrTable return the error "Cannot parse IP
\* address" and no sequence.
C5_NoTabIsFormatError ==
    (AddrCallOnReadable /\ (ScanText(GivenStatus, 2) = <<>> \/ ScanText(GivenStatus, 2)[1] # "\t")) =>
        /\ res.outcome = "err"
        /\ res.err = ErrCannotParse
        /\ res.isNil /\ res.val = <<>>

\* C6: every handle a query opens is closed when it returns, on success and
\* on failure: no handle is open after a query that has returned.
C6_NoHandleLeft == res.outcome \in {"ok", "err"} => (res.held = res.closed /\ nopen = 0)

TenDotFive == <<"1", "0", ".", "0", ".", "0", ".", "5">>

TenDotFiveRecord == [IP |-> <<10, 0, 0, 5>>, Zone |-> ""]

\* C7 as stated: with the second line "flags\t10.0.0.5 255.255.255.0\t"
\* interfaceAddrTable succeeds with the IP 10.0.0.5 and an empty Zone.
C7_FlagsLineGivesAddress ==
    (AddrCallOnReadable /\ ScanText(GivenStatus, 2) = FlagsLine) =>
        res.outcome = "ok" /\ res.val = <<TenDotFiveRecord>>

\* C7 amended: with the second line "\t10.0.0.5 255.255.255.0\t" the IP token
\* is "10.0.0.5" and interfaceAddrTable succeeds with the IP 10.0.0.5 and an
\* empty Zone; the line "flags\t10.0.0.5 255.255.255.0\t", which does not
\* begin with a tab, is refused with the error "Cannot parse IP address".
C7_TabLineGivesAddress ==
    /\ (AddrCallOnReadable /\ ScanText(GivenStatus, 2) = TabLine) =>
          /\ IPToken(TabLine) = TenDotFive
          /\ res.outcome = "ok" /\ res.val = <<TenDotFiveRecord>>
    /\ (AddrCallOnReadable /\ ScanText(GivenStatus, 2) = FlagsLine) =>
          /\ res.outcome = "err" /\ res.err = ErrCannotParse
          /\ res.isNil /\ res.val = <<>>

\* C7 witness: an interfaceAddrTable call on an interface whose address line
\* is "\t10.0.0.5 255.255.255.0\t" has returned the address 10.0.0.5.
C7_Witness ==
    /\ AddrCallOnReadable
    /\ ScanText(GivenStatus, 2) = TabLine
    /\ res.val = <<TenDotFiveRecord>>

\* C8: interfaceMulticastAddrTable returns an empty result and no error for
\* every argument and opens no file.
C8_MulticastEmpty ==
    res.op = "interfaceMulticastAddrTable" =>
        /\ res.outcome = "ok" /\ res.err = NoErr
        /\ res.val = <<>>
        /\ res.opened = <<>> /\ res.held = 0

\* C8 witness: the multicast query has answered for an interface that has
\* no status file.
C8_Witness ==
    /\ res.op = "interfaceMulticastAddrTable"
    /\ res.argIfc # <<>>
    /\ ~StatusFile(res.argIfc[1].Name).exists
    /\ res.outcome = "ok"

ReadStatus == StatusFile(Itoa(res.argIdx))

StatusFields == Split(ScanText(ReadStatus, 1), " ")

\* C9: in readInterface a first status line with fewer than 4 fields, or
\* whose field[3] is no base-10 integer, fails with a format error, returns
\* no record and leaves the addr file unopened; on success MTU is the value
\* of field[3] and is not negative.
C9_StatusLineParsing ==
    (res.op = "readInterface" /\ ReadStatus.exists /\ ~ReadStatus.readErr) =>
        /\ (Len(StatusFields) < 4 \/ ~ParseInt(StatusFields[4]).ok) =>
              /\ res.outcome = "err"
              /\ IsFormatError(res.err) /\ ~IsIOError(res.err)
              /\ res.isNil /\ res.val = <<>>
              /\ \A k \in 1..Len(res.opened) : res.opened[k].kind # "addr"
        /\ res.outcome = "ok" =>
              /\ res.val[1].MTU = ParseInt(StatusFields[4]).val
              /\ res.val[1].MTU >= 0

\* The addr file read by the last readInterface call, when the call got as
\* far as opening it.
AddrWasRead ==
    /\ res.op = "readInterface"
    /\ Len(res.opened) = 2
    /\ AddrFile(res.opened[2].key).exists
    /\ ~AddrFile(res.opened[2].key).readErr

AddrLine == ScanText(AddrFile(res.opened[2].key), 1)

Colons(a) == [i \in 1..17 |-> IF i % 3 = 0 THEN ":" ELSE a[i - (i \div 3)]]

Octets(a) == [k \in 1..6 |-> 16 * HexVal(a[2 * k - 1]) + HexVal(a[2 * k])]

\* C10: in readInterface an addr line of a length other than 12 fails with
\* "invalid hardware address"; a line of 12 characters is reformatted to 6
\* colon-separated pairs, the same characters in the same order, and fails at
\* ParseMAC when a character is no hexadecimal digit; no record is returned
\* on failure.  "0011223344aa" gives 00:11:22:33:44:aa.
C10_HardwareAddr ==
    AddrWasRead =>
        IF Len(AddrLine) # 12
        THEN res.outcome = "err" /\ res.err = ErrHwAddr /\ res.isNil /\ res.val = <<>>
        ELSE /\ FormatMAC(AddrLine) = Colons(AddrLine)
             /\ IF \A i \in 1..12 : IsHex(AddrLine[i])
                THEN /\ res.outcome = "ok"
                     /\ res.val[1].HardwareAddr = Octets(AddrLine)
                     /\ (AddrLine = ExampleAddr => res.val[1].HardwareAddr = <<0, 17, 34, 51, 68, 170>>)
                ELSE res.outcome = "err" /\ res.err = ErrMAC /\ res.isNil /\ res.val = <<>>

\* C10 witness: readInterface has decoded "0011223344aa".
C10_Witness ==
    /\ AddrWasRead
    /\ AddrLine = ExampleAddr
    /\ res.outcome = "ok"
    /\ res.val[1].HardwareAddr = <<0, 17, 34, 51, 68, 170>>

====
